---- MODULE Spec2Model ----
(***************************************************************************)
(* Model of streamlit_app.py: the bridge between the MQTT callback thread  *)
(* (on_message) and the Streamlit script run of each browser session       *)
(* (state initialisation, cached model / client factories, the drain loop, *)
(* the bounded history, render and rerun).                                 *)
(*                                                                         *)
(* One script run is a sequence of steps of the session's script thread;   *)
(* pc[s] is its position.  The callback thread interleaves with every      *)
(* step.  Variables named g_* are history (ghost) variables: they record   *)
(* what the code did and are never read by an action's guard or effect.    *)
(***************************************************************************)
EXTENDS Integers, Sequences, FiniteSets, TLC

\* ------------------------------------------------------------------ bounds
\* Number of inbound messages the broker delivers in one behaviour.
MaxMsgs == 3

\* Number of publishes that fail in one behaviour.
MaxPubFail == 1

\* Capacity of the history buffer.  The source's literal is 1000 (line 134);
\* the model is checked with a small capacity so that eviction happens.
MAX_HISTORY == 2

\* ------------------------------------------------------------ configuration
\* The browser sessions.
Sessions == {"s1", "s2"}

TOPIC_DATA == "net4think/air_quality/data"

TOPIC_PRED == "net4think/air_quality/prediction"

None == "None"

\* ------------------------------------------------------------ JSON values
\* A decoded JSON scalar: a number, a string or null.
Num(n) == [type |-> "num", n |-> n, s |-> ""]

Str(t) == [type |-> "str", n |-> 0, s |-> t]

Null == [type |-> "null", n |-> 0, s |-> ""]

\* A decoded JSON object: a function from the keys present to scalars.
Dict(f) == [type |-> "dict", items |-> f]

\* The raw payloads the broker may deliver: a complete reading, an empty
\* object, bytes that are no JSON, and a reading whose temperature is null.
RawPayloads == {"full", "empty", "notjson", "nullnum"}

\* json.loads(msg.payload.decode()): the decoded value, or a failure.
JsonLoads(raw) ==
    CASE raw = "full" ->
           [ok |-> TRUE,
            value |-> Dict([k \in {"temperature", "humidity", "gas_ppm", "timestamp"} |->
                 CASE k = "temperature" -> Num(21)
                   [] k = "humidity" -> Num(40)
                   [] k = "gas_ppm" -> Num(300)
                   [] k = "timestamp" -> Str("10:00:00")])]
      [] raw = "empty" ->
           [ok |-> TRUE, value |-> Dict([k \in {} |-> Null])]
      [] raw = "nullnum" ->
           [ok |-> TRUE,
            value |-> Dict([k \in {"temperature", "humidity"} |->
                 IF k = "temperature" THEN Null ELSE Num(40)])]
      [] OTHER ->
           [ok |-> FALSE, value |-> Null]

\* payload.get(key, default) on a dict.
DictGet(d, key, default) ==
    IF key \in DOMAIN d.items THEN d.items[key] ELSE default

\* float(v): a number keeps its value; null raises TypeError.
Float(v) ==
    IF v.type = "num" THEN [ok |-> TRUE, f |-> v.n] ELSE [ok |-> FALSE, f |-> 0]

\* datetime.now().strftime("%H:%M:%S"): the wall clock readings.
Clock == {"12:00:00"}

\* ------------------------------------------------------------- classifier
\* Lines 104-108: the loaded classifier, an opaque artifact that maps the three
\* features to a label and to round(proba[pred_idx] * 100, 1), the confidence
\* (here in tenths of a percent).  The stand-in is a fixed threshold on the gas
\* level.
Classify(temp, hum, gas) ==
    IF gas > 100 THEN [label |-> "Berbahaya", confidence |-> 875]
    ELSE [label |-> "Baik", confidence |-> 1000]

\* ------------------------------------------------------------------ state
VARIABLES
    modelCache,   \* st.cache_resource entry of load_model: "unset", "loaded", "none"
    mqttCache,    \* st.cache_resource entry of start_mqtt: "unset", "client", "none"
    userdata,     \* the client's userdata slot: a session (its queue) or None
    loopRunning,  \* the client's background receive loop is running
    pc,           \* position of each session's script thread
    inited,       \* the session_state keys exist
    model,        \* module-level variable model of the script run
    mqtt_client,  \* module-level variable mqtt_client of the script run
    mqtt_queue,   \* st.session_state.mqtt_queue
    sensor_data,  \* st.session_state.sensor_data
    pred_result,  \* st.session_state.pred_result
    history,      \* st.session_state.history
    loc,          \* locals of the drain loop body
    g_nmsgs,      \* number of messages delivered to on_message
    g_received,   \* per delivered message: decoded?, destination queue
    g_processed,  \* per session: ids of the items whose history entry was appended
    g_entries,    \* per session: every history entry ever appended
    g_published,  \* per session: its publishes to TOPIC_PRED, in call order
    g_connects,   \* calls of client.connect
    g_subscribes, \* calls of client.subscribe
    g_loopStarts  \* calls of client.loop_start

procVars == <<modelCache, mqttCache, userdata, loopRunning>>

sessVars == <<pc, inited, model, mqtt_client, mqtt_queue, sensor_data, pred_result,
              history, loc>>

ghostVars == <<g_nmsgs, g_received, g_processed, g_entries, g_published,
               g_connects, g_subscribes, g_loopStarts>>

vars == <<procVars, sessVars, ghostVars>>

\* Initial sentinels of the session state (lines 29-40).
InitSensorData == [temp |-> 0, hum |-> 0, gas |-> 0, timestamp |-> "-"]

InitPredResult == [label |-> "Menunggu...", confidence |-> 0]

NoLoc == [id |-> 0, topic |-> "", payload |-> Null, temp |-> 0, hum |-> 0, gas |-> 0,
          timestamp |-> "", pred_label |-> "", confidence |-> 0]

Init ==
    /\ modelCache = "unset"
    /\ mqttCache = "unset"
    /\ userdata = None
    /\ loopRunning = FALSE
    /\ pc = [s \in Sessions |-> "startup"]
    /\ inited = [s \in Sessions |-> FALSE]
    /\ model = [s \in Sessions |-> "none"]
    /\ mqtt_client = [s \in Sessions |-> "none"]
    /\ mqtt_queue = [s \in Sessions |-> <<>>]
    /\ sensor_data = [s \in Sessions |-> InitSensorData]
    /\ pred_result = [s \in Sessions |-> InitPredResult]
    /\ history = [s \in Sessions |-> <<>>]
    /\ loc = [s \in Sessions |-> NoLoc]
    /\ g_nmsgs = 0
    /\ g_received = <<>>
    /\ g_processed = [s \in Sessions |-> <<>>]
    /\ g_entries = [s \in Sessions |-> <<>>]
    /\ g_published = [s \in Sessions |-> <<>>]
    /\ g_connects = 0
    /\ g_subscribes = 0
    /\ g_loopStarts = 0

\* queue.Queue (line 27) is first-in first-out: put appends at the tail.
QueuePut(q, x) == Append(q, x)

\* Mutant of QueueGet: a last-in first-out queue.
QueueGetLifo(q) == [item |-> q[Len(q)], rest |-> SubSeq(q, 1, Len(q) - 1)]

\* queue.Queue.get() removes the item at the head.
QueueGet(q) == [item |-> Head(q), rest |-> Tail(q)]

\* The messages the transport hands to on_message: the client subscribes to
\* TOPIC_DATA alone (line 72), so that is the topic of every message.
Messages == {TOPIC_DATA} \X RawPayloads

\* ------------------------------------------------------- callback thread
\* Mutant of OnMessage: the callback writes the current reading itself.
OnMessageWritesState(topic, raw) ==
    /\ loopRunning
    /\ g_nmsgs < MaxMsgs
    /\ LET d == JsonLoads(raw)
           id == g_nmsgs + 1
           put == d.ok /\ userdata # None
       IN /\ mqtt_queue' =
                IF put
                THEN [mqtt_queue EXCEPT ![userdata] =
                          QueuePut(@, [id |-> id, topic |-> topic, payload |-> d.value])]
                ELSE mqtt_queue
          /\ sensor_data' =
                IF put
                THEN [sensor_data EXCEPT ![userdata].timestamp = "12:00:00"]
                ELSE sensor_data
          /\ g_received' = Append(g_received,
                [id |-> id, topic |-> topic, raw |-> raw, decoded |-> d.ok,
                 dest |-> IF put THEN userdata ELSE None])
          /\ g_nmsgs' = id
    /\ UNCHANGED <<procVars, pc, inited, model, mqtt_client, pred_result,
                   history, loc, g_processed, g_entries, g_published, g_connects,
                   g_subscribes, g_loopStarts>>

\* on_message (lines 55-63), called by the client's receive loop.
OnMessage(topic, raw) ==
    /\ loopRunning
    /\ g_nmsgs < MaxMsgs
    /\ LET d == JsonLoads(raw)
           id == g_nmsgs + 1
           put == d.ok /\ userdata # None
       IN /\ mqtt_queue' =
                IF put
                THEN [mqtt_queue EXCEPT ![userdata] =
                          QueuePut(@, [id |-> id, topic |-> topic, payload |-> d.value])]
                ELSE mqtt_queue
          /\ g_received' = Append(g_received,
                [id |-> id, topic |-> topic, raw |-> raw, decoded |-> d.ok,
                 dest |-> IF put THEN userdata ELSE None])
          /\ g_nmsgs' = id
    /\ UNCHANGED <<procVars, pc, inited, model, mqtt_client, sensor_data, pred_result,
                   history, loc, g_processed, g_entries, g_published, g_connects,
                   g_subscribes, g_loopStarts>>

\* --------------------------------------------------------- script thread
\* Lines 26-40: create the session_state keys that do not exist yet.
StateInit(s) ==
    /\ IF inited[s]
       THEN UNCHANGED <<mqtt_queue, sensor_data, pred_result, history>>
       ELSE /\ mqtt_queue' = [mqtt_queue EXCEPT ![s] = <<>>]
            /\ sensor_data' = [sensor_data EXCEPT ![s] = InitSensorData]
            /\ pred_result' = [pred_result EXCEPT ![s] = InitPredResult]
            /\ history' = [history EXCEPT ![s] = <<>>]
    /\ inited' = [inited EXCEPT ![s] = TRUE]

\* Lines 43-52: load_model behind st.cache_resource; the first call loads the
\* artifact or fails, later calls return the cached result.
LoadModel(s) ==
    /\ IF modelCache = "unset"
       THEN \E r \in {"loaded", "none"} : modelCache' = r
       ELSE UNCHANGED modelCache
    /\ model' = [model EXCEPT ![s] = modelCache']

\* Mutant of StartMqtt: the result is not cached, every call connects.
StartMqttUncached(s) ==
    /\ \E outcome \in {"ok", "connect_failed", "subscribe_failed"} :
           /\ g_connects' = g_connects + 1
           /\ g_subscribes' = IF outcome = "connect_failed" THEN g_subscribes
                              ELSE g_subscribes + 1
           /\ g_loopStarts' = IF outcome = "ok" THEN g_loopStarts + 1
                              ELSE g_loopStarts
           /\ loopRunning' = IF outcome = "ok" THEN TRUE ELSE loopRunning
           /\ mqttCache' = IF outcome = "ok" THEN "client" ELSE "none"
    /\ mqtt_client' = [mqtt_client EXCEPT ![s] = mqttCache']

\* Mutant of StartMqtt: a failed start is not cached, the next call retries.
StartMqttRetries(s) ==
    /\ IF mqttCache # "client"
       THEN \E outcome \in {"ok", "connect_failed", "subscribe_failed"} :
               /\ g_connects' = g_connects + 1
               /\ g_subscribes' = IF outcome = "connect_failed" THEN g_subscribes
                                  ELSE g_subscribes + 1
               /\ g_loopStarts' = IF outcome = "ok" THEN g_loopStarts + 1
                                  ELSE g_loopStarts
               /\ loopRunning' = IF outcome = "ok" THEN TRUE ELSE loopRunning
               /\ mqttCache' = IF outcome = "ok" THEN "client" ELSE "none"
       ELSE UNCHANGED <<mqttCache, loopRunning, g_connects, g_subscribes, g_loopStarts>>
    /\ mqtt_client' = [mqtt_client EXCEPT ![s] = mqttCache']

\* Lines 65-79: start_mqtt behind st.cache_resource.  The first call connects,
\* subscribes and starts the loop, or fails at connect or at subscribe and
\* returns None; later calls return the cached result.
StartMqtt(s) ==
    /\ IF mqttCache = "unset"
       THEN \E outcome \in {"ok", "connect_failed", "subscribe_failed"} :
               /\ g_connects' = g_connects + 1
               /\ g_subscribes' = IF outcome = "connect_failed" THEN g_subscribes
                                  ELSE g_subscribes + 1
               /\ g_loopStarts' = IF outcome = "ok" THEN g_loopStarts + 1
                                  ELSE g_loopStarts
               /\ loopRunning' = IF outcome = "ok" THEN TRUE ELSE loopRunning
               /\ mqttCache' = IF outcome = "ok" THEN "client" ELSE "none"
       ELSE UNCHANGED <<mqttCache, loopRunning, g_connects, g_subscribes, g_loopStarts>>
    /\ mqtt_client' = [mqtt_client EXCEPT ![s] = mqttCache']

\* Lines 26-79, the start of a script run: the session state, the model and
\* the client.  The receive loop that start_mqtt starts runs from here on,
\* while the script has not yet reached user_data_set.
Startup(s) ==
    /\ pc[s] = "startup"
    /\ StateInit(s)
    /\ LoadModel(s)
    /\ StartMqtt(s)
    /\ pc' = [pc EXCEPT ![s] = "user_data_set"]
    /\ UNCHANGED <<userdata, loc, g_nmsgs, g_received, g_processed, g_entries,
                   g_published>>

\* Mutant of UserDataSet: only the first session binds its queue.
UserDataSetOnce(s) ==
    /\ pc[s] = "user_data_set"
    /\ userdata' = IF mqtt_client[s] # "none" /\ userdata = None THEN s ELSE userdata
    /\ pc' = [pc EXCEPT ![s] = "drain_check"]
    /\ UNCHANGED <<modelCache, mqttCache, loopRunning, inited, model, mqtt_client,
                   mqtt_queue, sensor_data, pred_result, history, loc, ghostVars>>

\* Lines 81-82: bind the client's userdata to this session's queue.
UserDataSet(s) ==
    /\ pc[s] = "user_data_set"
    /\ userdata' = IF mqtt_client[s] # "none" THEN s ELSE userdata
    /\ pc' = [pc EXCEPT ![s] = "drain_check"]
    /\ UNCHANGED <<modelCache, mqttCache, loopRunning, inited, model, mqtt_client,
                   mqtt_queue, sensor_data, pred_result, history, loc, ghostVars>>

\* Mutant of QueueEmpty: the loop never sees an empty queue.
QueueEmptyNever(q) == FALSE

\* queue.Queue.empty()
QueueEmpty(q) == Len(q) = 0

\* Line 85: the loop condition of the drain loop.
DrainCheck(s) ==
    /\ pc[s] = "drain_check"
    /\ pc' = [pc EXCEPT ![s] = IF QueueEmpty(mqtt_queue[s]) THEN "render" ELSE "drain_get"]
    /\ UNCHANGED <<procVars, inited, model, mqtt_client, mqtt_queue, sensor_data,
                   pred_result, history, loc, ghostVars>>

\* Mutant of TopicMatches: no topic filter.
TopicMatchesAny(topic) == TRUE

\* Line 88: the topic filter of the drain loop.
TopicMatches(topic) == topic = TOPIC_DATA

\* Lines 86-98: queue.get() (which blocks while the queue is empty), the
\* topic filter, parsing of the payload and the update of the current reading.
\* payload.get on a value that is no dict and float() of a value that is no
\* number raise; nothing catches the exception, so the script run ends there.
DrainGet(s) ==
    /\ pc[s] = "drain_get"
    /\ Len(mqtt_queue[s]) > 0
    /\ mqtt_queue' = [mqtt_queue EXCEPT ![s] = QueueGet(@).rest]
    /\ LET it == QueueGet(mqtt_queue[s]).item
           p == it.payload
           got == [NoLoc EXCEPT !.id = it.id, !.topic = it.topic, !.payload = p]
           temp == Float(DictGet(p, "temperature", Num(0)))
           hum == Float(DictGet(p, "humidity", Num(0)))
           gas == Float(DictGet(p, "gas_ppm", Num(0)))
       IN IF ~TopicMatches(it.topic)
          THEN /\ loc' = [loc EXCEPT ![s] = got]
               /\ pc' = [pc EXCEPT ![s] = "drain_check"]
               /\ UNCHANGED sensor_data
          ELSE IF p.type # "dict" \/ ~(temp.ok /\ hum.ok /\ gas.ok)
          THEN /\ loc' = [loc EXCEPT ![s] = got]
               /\ pc' = [pc EXCEPT ![s] = "crashed"]
               /\ UNCHANGED sensor_data
          ELSE \E now \in Clock :
                  LET timestamp == DictGet(p, "timestamp", Str(now)).s
                  IN /\ loc' = [loc EXCEPT ![s] =
                            [got EXCEPT !.temp = temp.f, !.hum = hum.f, !.gas = gas.f,
                                        !.timestamp = timestamp]]
                     /\ sensor_data' = [sensor_data EXCEPT ![s] =
                            [temp |-> temp.f, hum |-> hum.f, gas |-> gas.f,
                             timestamp |-> timestamp]]
                     /\ pc' = [pc EXCEPT ![s] = "inference"]
    /\ UNCHANGED <<procVars, inited, model, mqtt_client, pred_result, history,
                   ghostVars>>

\* Number of failed publishes so far.
PubFailures ==
    Cardinality({<<s, i>> \in Sessions \X (1..MaxMsgs) :
                    i <= Len(g_published[s]) /\ ~g_published[s][i].ok})

\* Lines 101-102: the label and confidence of a reading that is not classified.
NoPrediction == [label |-> "N/A", confidence |-> 0]

\* Mutant of ShouldPublish: the publish sits outside the branch that has a
\* model.
ShouldPublishAlways(m, c) == c # "none"

\* Mutant of ShouldPublish: the publish before the history record is missing.
ShouldPublishNever(m, c) == FALSE

\* Lines 103 and 115: the result is published inside the branch that has a
\* model, and only with a client.
ShouldPublish(m, c) == m # "none" /\ c # "none"

\* Mutant of AfterPublish: a failed publish ends the script run.
AfterPublishRaises(ok) == IF ok THEN "append" ELSE "crashed"

\* Line 121: the script goes on to the history record whatever publish
\* returned; its return value is not looked at.
AfterPublish(ok) == "append"

\* Lines 100-121: inference and publish.  Without a model the label is "N/A"
\* and the confidence 0, pred_result is not assigned and nothing is published;
\* with a model the classifier's label and confidence are stored in
\* pred_result and, with a client, published.  client.publish reports a
\* transport failure in its return value, which the script ignores.
InferAndPublish(s) ==
    /\ pc[s] = "inference"
    /\ LET p == IF model[s] = "none" THEN NoPrediction
                ELSE Classify(loc[s].temp, loc[s].hum, loc[s].gas)
       IN /\ loc' = [loc EXCEPT ![s].pred_label = p.label,
                                ![s].confidence = p.confidence]
          /\ pred_result' = IF model[s] = "none" THEN pred_result
                            ELSE [pred_result EXCEPT ![s] =
                                     [label |-> p.label, confidence |-> p.confidence]]
          /\ IF ShouldPublish(model[s], mqtt_client[s])
             THEN \E ok \in BOOLEAN :
                     /\ ok \/ PubFailures < MaxPubFail
                     /\ g_published' = [g_published EXCEPT ![s] = Append(@,
                            [id |-> loc[s].id, topic |-> TOPIC_PRED,
                             label |-> p.label, confidence |-> p.confidence,
                             ok |-> ok])]
                     /\ pc' = [pc EXCEPT ![s] = AfterPublish(ok)]
             ELSE /\ UNCHANGED g_published
                  /\ pc' = [pc EXCEPT ![s] = "append"]
    /\ UNCHANGED <<procVars, inited, model, mqtt_client, mqtt_queue, sensor_data,
                   history, g_nmsgs, g_received, g_processed, g_entries, g_connects,
                   g_subscribes, g_loopStarts>>

\* Mutant of TrimHistory: the size test is off by one.
TrimHistoryOffByOne(h) == IF Len(h) > MAX_HISTORY + 1 THEN Tail(h) ELSE h

\* Mutant of TrimHistory: the newest entry is dropped instead of the oldest.
TrimHistoryPopLast(h) ==
    IF Len(h) > MAX_HISTORY THEN SubSeq(h, 1, Len(h) - 1) ELSE h

\* Lines 133-135: after an append, drop the oldest entry of a history that is
\* over capacity.
TrimHistory(h) == IF Len(h) > MAX_HISTORY THEN Tail(h) ELSE h

\* Mutant of NewRecord: temperature and humidity are swapped.
NewRecordSwapped(s) ==
    [time |-> loc[s].timestamp, Temp |-> loc[s].hum, Hum |-> loc[s].temp,
     Gas |-> loc[s].gas, Status |-> loc[s].pred_label]

\* Mutant of NewRecord: the Status is always "N/A".
NewRecordNoStatus(s) ==
    [time |-> loc[s].timestamp, Temp |-> loc[s].temp, Hum |-> loc[s].hum,
     Gas |-> loc[s].gas, Status |-> "N/A"]

\* Lines 123-131: the history record of the current item.
NewRecord(s) ==
    [time |-> loc[s].timestamp, Temp |-> loc[s].temp, Hum |-> loc[s].hum,
     Gas |-> loc[s].gas, Status |-> loc[s].pred_label]

\* Lines 123-135: append the record and keep the buffer within its size.
AppendHistory(s) ==
    /\ pc[s] = "append"
    /\ history' = [history EXCEPT ![s] = TrimHistory(Append(@, NewRecord(s)))]
    /\ g_processed' = [g_processed EXCEPT ![s] = Append(@, loc[s].id)]
    /\ g_entries' = [g_entries EXCEPT ![s] = Append(@, NewRecord(s))]
    /\ pc' = [pc EXCEPT ![s] = "drain_check"]
    /\ UNCHANGED <<procVars, inited, model, mqtt_client, mqtt_queue, sensor_data,
                   pred_result, loc, g_nmsgs, g_received, g_published, g_connects,
                   g_subscribes, g_loopStarts>>

\* Lines 137-350: render the page from the session state, sleep, and
\* st.rerun(), which starts the script again from the top.
RenderAndRerun(s) ==
    /\ pc[s] = "render"
    /\ pc' = [pc EXCEPT ![s] = "startup"]
    /\ UNCHANGED <<procVars, inited, model, mqtt_client, mqtt_queue, sensor_data,
                   pred_result, history, loc, ghostVars>>

Next ==
    \/ \E m \in Messages : OnMessage(m[1], m[2])
    \/ \E s \in Sessions : Startup(s)
    \/ \E s \in Sessions : UserDataSet(s)
    \/ \E s \in Sessions : DrainCheck(s)
    \/ \E s \in Sessions : DrainGet(s)
    \/ \E s \in Sessions : InferAndPublish(s)
    \/ \E s \in Sessions : AppendHistory(s)
    \/ \E s \in Sessions : RenderAndRerun(s)

Spec == Init /\ [][Next]_vars

\* --------------------------------------------------------------- fairness
\* A step of the script thread of a session.
ScriptStep(s) ==
    \/ Startup(s)
    \/ UserDataSet(s)
    \/ DrainCheck(s)
    \/ DrainGet(s)
    \/ InferAndPublish(s)
    \/ AppendHistory(s)
    \/ RenderAndRerun(s)

\* Every script thread keeps running while it has a step to take: none of its
\* steps waits for another thread (queue.get() is reached with an item in the
\* queue), and time.sleep(2) returns.  The callback thread runs when the
\* broker delivers a message, which it need not do.
FairSpec == Spec /\ \A s \in Sessions : WF_vars(ScriptStep(s))

\* ------------------------------------------- messages on a foreign topic
\* Number of messages delivered in a behaviour in which the transport also
\* hands over messages of a topic the client did not subscribe to.
MaxTopicMsgs == 2

\* A topic other than the inbound topic.
OTHER_TOPIC == "net4think/air_quality/other"

\* The messages on_message can be called with when the transport does not
\* keep to the subscription: on_message itself accepts every topic (line 59).
AnyTopicMessages == Messages \cup ({OTHER_TOPIC} \X {"full", "notjson"})

\* on_message (lines 55-63), called with a message of any topic.
OnAnyMessage(topic, raw) ==
    /\ g_nmsgs < MaxTopicMsgs
    /\ OnMessage(topic, raw)

NextTopics ==
    \/ \E m \in AnyTopicMessages : OnAnyMessage(m[1], m[2])
    \/ \E s \in Sessions : Startup(s)
    \/ \E s \in Sessions : UserDataSet(s)
    \/ \E s \in Sessions : DrainCheck(s)
    \/ \E s \in Sessions : DrainGet(s)
    \/ \E s \in Sessions : InferAndPublish(s)
    \/ \E s \in Sessions : AppendHistory(s)
    \/ \E s \in Sessions : RenderAndRerun(s)

SpecTopics == Init /\ [][NextTopics]_vars

\* ---------------------------------------------------------------- helpers
\* The ids held by a queue, head first.
QueuedIds(s) == [i \in 1..Len(mqtt_queue[s]) |-> mqtt_queue[s][i].id]

\* The elements of a sequence of ids.
IdSet(seq) == {seq[i] : i \in 1..Len(seq)}

\* The script thread of s holds a popped item it has not finished processing.
InFlight(s) == pc[s] \in {"inference", "append"}

\* The last n elements of a sequence.
LastN(seq, n) ==
    IF Len(seq) <= n THEN seq ELSE SubSeq(seq, Len(seq) - n + 1, Len(seq))

\* A sequence of numbers is strictly increasing.
Increasing(seq) == \A i, j \in 1..Len(seq) : i < j => seq[i] < seq[j]

\* ------------------------------------------------------------------ claims

\* C1: drain is order-preserving.  Ids number the messages in the order in
\* which on_message pushed them.  For every session's queue: the items whose
\* history entry was appended were processed in increasing push order, each
\* of them had been pushed into that queue, the item being processed was
\* pushed after every processed one, and the items still queued follow in push
\* order after it, so that no two items of a queue are ever processed in the
\* reverse of their push order.
C1_DrainOrderPreserving ==
    \A s \in Sessions :
        LET current == IF InFlight(s) THEN <<loc[s].id>> ELSE <<>>
        IN /\ Increasing(g_processed[s] \o current \o QueuedIds(s))
           /\ \A id \in IdSet(g_processed[s] \o current \o QueuedIds(s)) :
                  g_received[id].dest = s

\* C1 witness: a drain loop that has processed an item is processing the
\* next one while a further item waits in the queue.
C1_Witness ==
    \E s \in Sessions :
        /\ Len(g_processed[s]) >= 1
        /\ pc[s] = "append"
        /\ Len(mqtt_queue[s]) >= 1

\* C2: no message is dropped or duplicated: every message that on_message
\* decoded was pushed into a queue and is, from then on, either waiting in
\* that queue, being processed, or processed, exactly once in all.
C2_NoDropNoDup ==
    \A i \in 1..Len(g_received) :
        LET r == g_received[i]
            Count(seq) == Cardinality({k \in 1..Len(seq) : seq[k] = r.id})
        IN r.decoded =>
              /\ r.dest # None
              /\ Count(QueuedIds(r.dest))
                   + (IF InFlight(r.dest) /\ loc[r.dest].id = r.id THEN 1 ELSE 0)
                   + Count(g_processed[r.dest]) = 1

\* C3: the history never exceeds its capacity.
C3_HistoryBounded == \A s \in Sessions : Len(history[s]) <= MAX_HISTORY

\* C3 witness: a full history after more appends than its capacity.
C3_Witness ==
    \E s \in Sessions :
        /\ Len(history[s]) = MAX_HISTORY
        /\ Len(g_entries[s]) > MAX_HISTORY

\* C4: a malformed payload never crashes the bridge: no script run ends in an
\* exception raised by the drain step.
C4_MalformedNeverCrashes == \A s \in Sessions : pc[s] # "crashed"

\* C5 as stated: once the model failed to load, every session that drained a
\* message has the prediction {"N/A", 0} as its pred_result and as the Status
\* of the appended history entries, and nothing was published.
C5_ModelUnavailableAsStated ==
    \A s \in Sessions :
        (modelCache = "none" /\ Len(g_entries[s]) > 0) =>
            /\ pred_result[s] = NoPrediction
            /\ \A i \in 1..Len(g_entries[s]) : g_entries[s][i].Status = "N/A"
            /\ g_published[s] = <<>>

\* C5 amended: once the model failed to load, every appended history entry has
\* the Status "N/A", nothing is published, and pred_result is left at its
\* initial sentinel {"Menunggu...", 0}.
C5_ModelUnavailable ==
    \A s \in Sessions :
        modelCache = "none" =>
            /\ pred_result[s] = InitPredResult
            /\ \A i \in 1..Len(g_entries[s]) : g_entries[s][i].Status = "N/A"
            /\ \A i \in 1..Len(history[s]) : history[s][i].Status = "N/A"
            /\ InFlight(s) /\ pc[s] = "append" => loc[s].pred_label = "N/A"
                                                   /\ loc[s].confidence = 0
            /\ g_published[s] = <<>>

\* C5 witness: the model failed to load, the client is connected and a session
\* has drained two messages.
C5_Witness ==
    \E s \in Sessions :
        /\ modelCache = "none"
        /\ mqtt_client[s] = "client"
        /\ Len(g_entries[s]) >= 2

\* C6: a failed publish is swallowed: the item whose publish failed is either
\* at the history append or has its history entry, and the script run has not
\* ended in an exception because of it.
C6_PublishFailureSwallowed ==
    \A s \in Sessions :
        \A i \in 1..Len(g_published[s]) :
            ~g_published[s][i].ok =>
                \/ pc[s] = "append" /\ loc[s].id = g_published[s][i].id
                \/ g_published[s][i].id \in IdSet(g_processed[s])

\* C6 witness: a publish failed, its item's entry was appended, and a later
\* item was processed after it.
C6_Witness ==
    \E s \in Sessions :
        \E i \in 1..Len(g_published[s]) :
            /\ ~g_published[s][i].ok
            /\ \E k \in 1..Len(g_processed[s]) :
                  /\ g_processed[s][k] = g_published[s][i].id
                  /\ k < Len(g_processed[s])

\* The application state of a session.
AppState(s) == <<sensor_data[s], pred_result[s], history[s]>>

\* The number of items in all queues.
TotalQueued ==
    LET RECURSIVE Sum(_)
        Sum(S) == IF S = {} THEN 0
                  ELSE LET s == CHOOSE x \in S : TRUE
                       IN Len(mqtt_queue[s]) + Sum(S \ {s})
    IN Sum(Sessions)

\* C7: a step of on_message (the only step that receives a message) leaves
\* sensor_data, pred_result and history of every session unchanged, moves no
\* script thread, removes nothing from a queue and puts at most one item; and
\* the application state of a session changes only in a step of that session's
\* drain loop body.
C7_CallbackNeverMutatesState ==
    [][ /\ g_nmsgs' # g_nmsgs =>
            /\ \A s \in Sessions : AppState(s)' = AppState(s)
            /\ pc' = pc
            /\ TotalQueued' \in {TotalQueued, TotalQueued + 1}
            /\ \A s \in Sessions :
                  Len(mqtt_queue'[s]) >= Len(mqtt_queue[s])
                  /\ SubSeq(mqtt_queue'[s], 1, Len(mqtt_queue[s])) = mqtt_queue[s]
        /\ \A s \in Sessions :
              AppState(s)' # AppState(s) =>
                  /\ pc[s] \in {"drain_get", "inference", "append"}
                  /\ pc'[s] # pc[s]
      ]_vars

\* C7 witness: on_message has run with a decode failure and with decoded
\* messages that wait in a queue, and the application state of that session is
\* still the initial one.
C7_Witness ==
    \E s \in Sessions :
        /\ Len(mqtt_queue[s]) >= 2
        /\ \E i \in 1..Len(g_received) : ~g_received[i].decoded
        /\ AppState(s) = <<InitSensorData, InitPredResult, <<>>>>

\* C8: connect, subscribe and loop_start run at most once in the process, and
\* every script run past start_mqtt holds the one cached result.
C8_ClientStartedOnce ==
    /\ g_connects <= 1
    /\ g_subscribes <= 1
    /\ g_loopStarts <= 1
    /\ \A s \in Sessions : inited[s] => mqtt_client[s] = mqttCache

\* C8 witness: both sessions have run the script, one of them is in a later
\* run (it processed a message in an earlier one) and is past start_mqtt, and
\* the loop was started once.
C8_Witness ==
    \E s, u \in Sessions :
        /\ s # u
        /\ inited[u]
        /\ pc[s] = "user_data_set"
        /\ Len(g_processed[s]) >= 1
        /\ g_loopStarts = 1

\* C9: queue.get() is reached only with an item in the queue; and a drain that
\* finds its queue empty goes straight to rendering and changes nothing else.
C9_DrainNeverBlocks ==
    /\ [](\A s \in Sessions : pc[s] = "drain_get" => Len(mqtt_queue[s]) > 0)
    /\ [][\A s \in Sessions :
             (pc[s] = "drain_check" /\ Len(mqtt_queue[s]) = 0 /\ pc'[s] # pc[s]) =>
                 /\ pc'[s] = "render"
                 /\ UNCHANGED <<procVars, inited, model, mqtt_client, mqtt_queue,
                                sensor_data, pred_result, history, loc, ghostVars>>
         ]_vars

\* C9 witness: one session is at queue.get() with two items queued (one was
\* pushed after the loop condition was evaluated or both before), while the
\* other found its queue empty and went on to render.
C9_Witness ==
    \E s, u \in Sessions :
        /\ s # u
        /\ pc[s] = "drain_get"
        /\ Len(mqtt_queue[s]) >= 2
        /\ pc[u] = "render"
        /\ mqtt_queue[u] = <<>>

\* C10: FIFO eviction: the history is the last min(k, MAX_HISTORY) of the k
\* entries appended so far, in the order in which they were appended.
C10_FifoEviction ==
    \A s \in Sessions : history[s] = LastN(g_entries[s], MAX_HISTORY)

\* C10 witness: one entry more than the capacity was appended, the first two
\* of them differ, and the history starts with the second.
C10_Witness ==
    \E s \in Sessions :
        /\ Len(g_entries[s]) = MAX_HISTORY + 1
        /\ g_entries[s][1] # g_entries[s][2]
        /\ Len(history[s]) = MAX_HISTORY
        /\ history[s][1] = g_entries[s][2]

\* The payload that on_message decoded for the message with this id.
PayloadOf(id) == JsonLoads(g_received[id].raw).value

\* The number a decoded reading carries under a key, 0 when the key is absent.
NumberIn(p, key) == IF key \in DOMAIN p.items THEN p.items[key].n ELSE 0

\* A record's time is the payload's timestamp, or a clock reading when the
\* payload has none.
TimeAgrees(p, time) ==
    IF "timestamp" \in DOMAIN p.items THEN time = p.items["timestamp"].s
    ELSE time \in Clock

\* C11: round trip of a reading.  The history entry appended for a drained
\* item carries the temperature, humidity, gas level and timestamp of the
\* payload decoded for that item, 0 standing for an absent numeric field; the
\* entry is the newest of the history when it is appended; and while the item
\* is being processed the current reading carries the same values.
C11_ReadingRoundTrip ==
    \A s \in Sessions :
        /\ \A i \in 1..Len(g_entries[s]) :
              LET q == PayloadOf(g_processed[s][i])
                  e == g_entries[s][i]
              IN /\ e.Temp = NumberIn(q, "temperature")
                 /\ e.Hum = NumberIn(q, "humidity")
                 /\ e.Gas = NumberIn(q, "gas_ppm")
                 /\ TimeAgrees(q, e.time)
        /\ Len(g_entries[s]) > 0 =>
              history[s][Len(history[s])] = g_entries[s][Len(g_entries[s])]
        /\ InFlight(s) =>
              LET q == PayloadOf(loc[s].id)
              IN /\ sensor_data[s].temp = NumberIn(q, "temperature")
                 /\ sensor_data[s].hum = NumberIn(q, "humidity")
                 /\ sensor_data[s].gas = NumberIn(q, "gas_ppm")
                 /\ TimeAgrees(q, sensor_data[s].timestamp)

\* C11 witness: a session appended the entry of a complete reading and the
\* entry of an empty object.
C11_Witness ==
    \E s \in Sessions :
        \E i, j \in 1..Len(g_entries[s]) :
            /\ g_received[g_processed[s][i]].raw = "full"
            /\ g_received[g_processed[s][j]].raw = "empty"
            /\ g_entries[s][i].Temp = 21
            /\ g_entries[s][j].Temp = 0

\* The ids of the publishes of a session.
PublishedIds(s) == {g_published[s][i].id : i \in 1..Len(g_published[s])}

\* C12: an item of another topic is removed from the queue and is otherwise a
\* no-op: the step that pops it leaves sensor_data, pred_result and history
\* unchanged, publishes nothing, appends nothing and returns to the loop
\* condition; no item of another topic is ever processed or published.
C12_OtherTopicIgnored ==
    /\ [](\A s \in Sessions :
             \A id \in IdSet(g_processed[s]) \cup PublishedIds(s) :
                 g_received[id].topic = TOPIC_DATA)
    /\ [][\A s \in Sessions :
             (/\ pc[s] = "drain_get"
              /\ pc'[s] # pc[s]
              /\ Head(mqtt_queue[s]).topic # TOPIC_DATA) =>
                 /\ mqtt_queue'[s] = Tail(mqtt_queue[s])
                 /\ pc'[s] = "drain_check"
                 /\ AppState(s)' = AppState(s)
                 /\ UNCHANGED <<g_published, g_entries, g_processed>>
         ]_vars

\* C12 witness: a session with a model and a client popped an item of another
\* topic whose payload is a complete reading, finished the drain and is at
\* render with its initial application state and nothing published.
C12_Witness ==
    \E s \in Sessions :
        \E i \in 1..Len(g_received) :
            /\ g_received[i].topic = OTHER_TOPIC
            /\ g_received[i].dest = s
            /\ i \notin IdSet(QueuedIds(s))
            /\ pc[s] = "render"
            /\ model[s] = "loaded"
            /\ AppState(s) = <<InitSensorData, InitPredResult, <<>>>>
            /\ g_published[s] = <<>>

\* C13: a failed connect or subscribe leaves the bridge disabled and is not
\* fatal.  Once start_mqtt has returned None: every script run holds None as
\* its client, userdata is never bound, the receive loop does not run, no
\* message was received, queued or published, connect was called once and not
\* again, the application state of every session is the initial one, and
\* every script thread is at a position of the cycle startup, user_data_set,
\* loop condition, render (never at queue.get(), never ended by an exception).
C13_ConnectFailureDisablesBridge ==
    mqttCache = "none" =>
        /\ g_connects = 1
        /\ g_loopStarts = 0
        /\ ~loopRunning
        /\ userdata = None
        /\ g_nmsgs = 0
        /\ \A s \in Sessions :
              /\ inited[s] => mqtt_client[s] = "none"
              /\ mqtt_queue[s] = <<>>
              /\ g_published[s] = <<>>
              /\ AppState(s) = <<InitSensorData, InitPredResult, <<>>>>
              /\ pc[s] \in {"startup", "user_data_set", "drain_check", "render"}

\* C13 witness: the connection failed and every session has since completed a
\* script run up to render (the second of them with the cached None).
C13_Witness ==
    /\ mqttCache = "none"
    /\ g_connects = 1
    /\ \A s \in Sessions : inited[s] /\ pc[s] = "render"

\* The reading held by the locals of the drain loop body.
LocReading(s) ==
    [temp |-> loc[s].temp, hum |-> loc[s].hum, gas |-> loc[s].gas,
     timestamp |-> loc[s].timestamp]

\* C14 as stated: the history entry of an item is appended before its result
\* is published, so every published item already has its entry; and the
\* current reading is updated only after inference, so it is still the
\* initial one when the first item of a session is about to be classified.
C14_StepOrderAsStated ==
    \A s \in Sessions :
        /\ PublishedIds(s) \subseteq IdSet(g_processed[s])
        /\ (pc[s] = "inference" /\ g_entries[s] = <<>>) =>
               sensor_data[s] = InitSensorData

\* C14 amended: the steps of an item run in the order feature extraction,
\* update of the current reading, inference, update of pred_result, publish,
\* history append.  Before inference the current reading is already the
\* item's and nothing of the item is published or appended; before the
\* append, with a model and a client, pred_result is the item's prediction and
\* its result is already published; every appended entry was published
\* before.
C14_StepOrder ==
    \A s \in Sessions :
        LET canPublish == model[s] = "loaded" /\ mqtt_client[s] = "client"
        IN /\ pc[s] = "inference" =>
                 /\ sensor_data[s] = LocReading(s)
                 /\ loc[s].id \notin PublishedIds(s)
                 /\ loc[s].id \notin IdSet(g_processed[s])
           /\ pc[s] = "append" =>
                 /\ sensor_data[s] = LocReading(s)
                 /\ loc[s].id \notin IdSet(g_processed[s])
                 /\ canPublish =>
                       /\ loc[s].id \in PublishedIds(s)
                       /\ pred_result[s] = [label |-> loc[s].pred_label,
                                            confidence |-> loc[s].confidence]
           /\ canPublish => IdSet(g_processed[s]) \subseteq PublishedIds(s)

\* C14 witness: the result of an item is published and its history entry is
\* not yet appended.
C14_Witness ==
    \E s \in Sessions :
        /\ pc[s] = "append"
        /\ loc[s].id \in PublishedIds(s)
        /\ loc[s].id \notin IdSet(g_processed[s])
        /\ Len(g_entries[s]) >= 1

\* C15: every drain terminates and the refresh cycle reaches the render step:
\* a script thread that evaluates the loop condition of the drain loop
\* eventually renders.
C15_DrainTerminates ==
    \A s \in Sessions : (pc[s] = "drain_check") ~> (pc[s] = "render")

\* The current reading that corresponds to a history entry.
ReadingOf(e) == [temp |-> e.Temp, hum |-> e.Hum, gas |-> e.Gas, timestamp |-> e.time]

\* C16: consistency of the current state with the history.  Whenever a
\* session is not in the middle of processing an item and its history is not
\* empty, the current reading equals the fields of the last history entry and,
\* with the model loaded, the label of pred_result equals its Status.
C16_StateMatchesHistory ==
    \A s \in Sessions :
        (~InFlight(s) /\ Len(history[s]) > 0) =>
            LET e == history[s][Len(history[s])]
            IN /\ sensor_data[s] = ReadingOf(e)
               /\ modelCache = "loaded" => pred_result[s].label = e.Status

\* C16 witness: with the model loaded, a session has finished a drain that
\* evicted an entry and is at render.
C16_Witness ==
    \E s \in Sessions :
        /\ modelCache = "loaded"
        /\ pc[s] = "render"
        /\ Len(g_entries[s]) > MAX_HISTORY
        /\ g_entries[s][1] # g_entries[s][Len(g_entries[s])]

\* C17: single-channel delivery.  userdata changes only when a script run
\* executes user_data_set, which binds it to that session's queue; a step of
\* on_message puts a decoded message at the tail of the queue userdata is
\* bound to, which is the queue of the session that executed user_data_set
\* last, and leaves every other queue unchanged; a message that is not
\* decoded, or that arrives while userdata is None, changes no queue.
C17_SingleChannelDelivery ==
    [][ /\ \A s \in Sessions :
              (pc[s] = "user_data_set" /\ pc'[s] # pc[s] /\ mqtt_client[s] = "client") =>
                  userdata' = s
        /\ userdata' # userdata =>
              \E s \in Sessions : pc[s] = "user_data_set" /\ pc'[s] # pc[s]
        /\ g_nmsgs' # g_nmsgs =>
              LET id == g_nmsgs'
                  decoded == JsonLoads(g_received'[id].raw).ok
              IN \A s \in Sessions :
                    IF decoded /\ userdata = s
                    THEN /\ Len(mqtt_queue'[s]) = Len(mqtt_queue[s]) + 1
                         /\ SubSeq(mqtt_queue'[s], 1, Len(mqtt_queue[s])) = mqtt_queue[s]
                         /\ mqtt_queue'[s][Len(mqtt_queue'[s])].id = id
                    ELSE mqtt_queue'[s] = mqtt_queue[s]
      ]_vars

\* C17 witness: of three decoded messages the first arrived while userdata
\* was None and is in no queue, and the other two were put into the queues of
\* two different sessions.
C17_Witness ==
    \E i, j, k \in 1..Len(g_received) :
        /\ g_received[i].decoded /\ g_received[i].dest = None
        /\ g_received[j].dest \in Sessions
        /\ g_received[k].dest \in Sessions
        /\ g_received[j].dest # g_received[k].dest
        /\ \A s \in Sessions : i \notin IdSet(QueuedIds(s)) \cup IdSet(g_processed[s])

\* The items of a session's queue that the drain has popped and is done with.
Drained(s) ==
    {id \in 1..g_nmsgs :
        /\ g_received[id].dest = s
        /\ id \notin IdSet(QueuedIds(s))
        /\ ~(InFlight(s) /\ loc[s].id = id)}

\* C18: one result per reading.  With the model loaded and the client
\* connected, every item the drain is done with was published exactly once,
\* the publishes are in the order of processing, and each carries the label
\* and confidence of the Status of the item's history entry and, for the
\* newest item, of pred_result.
C18_OneResultPerReading ==
    \A s \in Sessions :
        (model[s] = "loaded" /\ mqtt_client[s] = "client") =>
            /\ \A id \in Drained(s) :
                  Cardinality({i \in 1..Len(g_published[s]) :
                                  g_published[s][i].id = id}) = 1
            /\ \A i \in 1..Len(g_processed[s]) :
                  /\ g_published[s][i].id = g_processed[s][i]
                  /\ g_published[s][i].label = g_entries[s][i].Status
            /\ (~InFlight(s) /\ Len(g_published[s]) > 0) =>
                  LET last == g_published[s][Len(g_published[s])]
                  IN /\ pred_result[s].label = last.label
                     /\ pred_result[s].confidence = last.confidence

====
